---- MODULE Spec2Model ----
(***************************************************************************)
(* A model of the gRPC demo service: the ApiServer servicer and the        *)
(* ApiClient wrapper of src/src/api.py, the server process of              *)
(* src/src/server.py and the calls the web page makes in src/src/app.py.   *)
(*                                                                         *)
(* The repository's own code is a handful of lines; what those lines mean  *)
(* is decided by the runtime they invoke (grpc.server over a               *)
(* ThreadPoolExecutor, the stub's unary-unary and unary-stream callables). *)
(* Every action below names the source line whose execution it models;     *)
(* where the step is performed by the gRPC runtime on behalf of that line  *)
(* the comment says so.                                                    *)
(***************************************************************************)
EXTENDS Integers, Sequences, FiniteSets, TLC

\* ------------------------------------------------------------- bounds
\* Calls a client makes in one behaviour of Spec.
MaxCalls == 1
\* Largest length a caller passes besides the one the web page uses.
MaxLen == 2
\* Calls made in one behaviour of SpecPool (one more than the pool holds).
MaxPoolCalls == 11
\* Calls made in one behaviour of SpecFault.
MaxPair == 2
\* Response messages the transport buffers per call before a send blocks.
Window == 1

\* ---------------------------------------------------- program constants
\* futures.ThreadPoolExecutor(max_workers=10)
MaxWorkers == 10
\* api.getAll(length=10) in home()
HomeAllLength == 10
\* api.getStream(length=5) in home()
HomeStreamLength == 5

\* api.sayHello("Gonzalo") in home(), and the empty name.
Names == {"", "Gonzalo"}
\* ApiRequest.length values: the negative one, zero, the small ones.
Lengths == -1 .. MaxLen

VARIABLES
    rpc,          \* the calls made so far, in the order the client made them
    queue,        \* the executor's work queue: calls submitted, not yet run
    serverState,  \* "serving" | "exited"
    atSignal      \* the calls in flight when the termination signal arrived

vars == <<rpc, queue, serverState, atSignal>>

\* ------------------------------------------------------ message schema
\* str(i) as the f-string f'{i}' renders a non-negative int: decimal digits.
Digit(d) ==
    CASE d = 0 -> "0" [] d = 1 -> "1" [] d = 2 -> "2" [] d = 3 -> "3"
      [] d = 4 -> "4" [] d = 5 -> "5" [] d = 6 -> "6" [] d = 7 -> "7"
      [] d = 8 -> "8" [] d = 9 -> "9"

RECURSIVE Decimal(_)
Decimal(n) == IF n < 10 THEN Digit(n) ELSE Decimal(n \div 10) \o Digit(n % 10)

\* Item(id=i, name=f'name {i}')
Item(i) == [id |-> i, name |-> "name " \o Decimal(i)]

\* Hello with the closing "!" forgotten.
HelloNoBang(name) == "Hello " \o name

\* Hello(message=f'Hello {request.name}!')
Hello(name) == "Hello " \o name \o "!"

\* What travels from server to client on one call: response messages, then
\* one status (the trailers) that ends the call.
HelloFrame(m) == [k |-> "Hello", message |-> m, items |-> <<>>, code |-> ""]
ItemsFrame(d) == [k |-> "Items", message |-> "", items |-> d, code |-> ""]
ItemFrame(it) == [k |-> "Item", message |-> "", items |-> <<it>>, code |-> ""]
StatusFrame(code) == [k |-> "status", message |-> "", items |-> <<>>, code |-> code]

\* ------------------------------------------------------------ helpers
Ids == DOMAIN rpc

\* A call the client has started and that has not yet ended for it.
InFlight(c) == rpc[c].client \in {"waiting", "streaming"}

\* Calls whose servicer method is executing.
Running == {c \in Ids : rpc[c].server = "running"}

\* Calls that hold a worker thread of the pool. The threads are
\* interchangeable: which one holds a call is not recorded.
Busy == {c \in Ids : rpc[c].held}

\* The call's status (its trailers) has reached the client's side.
Ended(c) == Len(rpc[c].wire) > 0 /\ rpc[c].wire[Len(rpc[c].wire)].k = "status"

\* A call that ends without giving its worker back to the pool.
LeaveHolding(r, how) ==
    [r EXCEPT !.server = how, !.pc = "end", !.i = 0, !.data = <<>>,
              !.pending = <<>>,
              !.wire = IF r.client = "cancelled" THEN <<>> ELSE @]

\* The server side of a call ends: its worker returns to the pool and the
\* locals of the servicer method (i, data, the yielded Item) are gone; so is
\* what it sent to a caller that has cancelled.
Leave(r, how) ==
    [r EXCEPT !.server = how, !.held = FALSE, !.pc = "end", !.i = 0, !.data = <<>>,
              !.pending = <<>>,
              !.wire = IF r.client = "cancelled" THEN <<>> ELSE @]

\* The status that ends a call is written unless the call is known cancelled.
WithStatus(r, code) ==
    IF r.cancelSeen THEN r ELSE [r EXCEPT !.wire = Append(@, StatusFrame(code))]

Init ==
    /\ rpc = <<>>
    /\ queue = <<>>
    /\ serverState = "serving"
    /\ atSignal = {}

\* ------------------------------------------------------------- client
\* ApiClient.__init__: channel = grpc.insecure_channel(target), the one
\* channel of the client, and self.client = ApiStub(channel=channel), the
\* stub bound to it. Channels are numbered in the order of their creation.
TheChannel == 1

\* A client whose methods open a channel of their own for every call.
NewCallOwnChannel(op, name, length, accepted) ==
    [op |-> op, name |-> name, length |-> length,
     client |-> IF op = "getStream" THEN "streaming" ELSE "waiting",
     message |-> "", items |-> <<>>,
     server |-> IF accepted THEN "queued" ELSE "refused",
     held |-> FALSE, pc |-> "idle", i |-> 0, data |-> <<>>, pending |-> <<>>,
     wire |-> <<>>, closed |-> FALSE, lost |-> ~accepted, cancelSeen |-> FALSE,
     reread |-> FALSE, channel |-> TheChannel + Len(rpc)]

\* self.client.<op>(request): one request leaves on the client's channel.
\* A server that has exited refuses the connection; otherwise the runtime
\* submits the call to the pool.
NewCall(op, name, length, accepted) ==
    [op |-> op, name |-> name, length |-> length,
     client |-> IF op = "getStream" THEN "streaming" ELSE "waiting",
     message |-> "", items |-> <<>>,
     server |-> IF accepted THEN "queued" ELSE "refused",
     held |-> FALSE, pc |-> "idle", i |-> 0, data |-> <<>>, pending |-> <<>>,
     wire |-> <<>>, closed |-> FALSE, lost |-> ~accepted, cancelSeen |-> FALSE,
     reread |-> FALSE, channel |-> TheChannel]

StubCall(op, name, length) ==
    LET accepted == serverState = "serving"
    IN /\ rpc' = Append(rpc, NewCall(op, name, length, accepted))
       /\ queue' = IF accepted THEN Append(queue, Len(rpc) + 1) ELSE queue
       /\ UNCHANGED <<serverState, atSignal>>

\* ApiClient.sayHello(name): response = self.client.sayHello(HelloRequest(name=name))
ApiClient_sayHello(name) == StubCall("sayHello", name, 0)

\* ApiClient.getAll(length): response = self.client.getAll(ApiRequest(length=length))
ApiClient_getAll(length) == StubCall("getAll", "", length)

\* ApiClient.getStream(length): response = self.client.getStream(ApiRequest(length=length));
\* return response  (the iterator, handed back at once)
ApiClient_getStream(length) == StubCall("getStream", "", length)

\* What the blocking stub call of sayHello / getAll makes of the frames w it
\* received: return response.message / return response.items, or the stub
\* raises and, the method having no handler, the error reaches the caller.
UnaryOutcome(r, w) ==
    IF ~r.lost /\ w[Len(w)].code = "OK"
    THEN [r EXCEPT !.client = "ok", !.message = w[1].message, !.items = w[1].items,
                   !.wire = <<>>]
    ELSE [r EXCEPT !.client = "error", !.wire = <<>>]

\* A client method that catches the stub's error and sends its request
\* again instead of raising.
ClientReturnRetry(c) ==
    /\ rpc[c].client = "waiting"
    /\ rpc[c].lost \/ Ended(c)
    /\ IF ~rpc[c].lost /\ rpc[c].wire[Len(rpc[c].wire)].code = "OK"
       THEN /\ rpc' = [rpc EXCEPT ![c] =
                         [@ EXCEPT !.client = "ok", !.message = rpc[c].wire[1].message,
                                   !.items = rpc[c].wire[1].items, !.wire = <<>>]]
            /\ queue' = queue
       ELSE /\ rpc' = [rpc EXCEPT ![c] =
                         NewCall(rpc[c].op, rpc[c].name, rpc[c].length,
                                 serverState = "serving")]
            /\ queue' = IF serverState = "serving" THEN Append(queue, c) ELSE queue
    /\ UNCHANGED <<serverState, atSignal>>

\* ApiClient.sayHello / ApiClient.getAll return to their caller.
ClientReturn(c) ==
    /\ rpc[c].client = "waiting"
    /\ rpc[c].lost \/ Ended(c)
    /\ rpc' = [rpc EXCEPT ![c] = UnaryOutcome(@, rpc[c].wire)]
    /\ UNCHANGED <<queue, serverState, atSignal>>

\* An iterator that takes the error a call ended with for the end of the
\* stream.
StreamOutcomeQuiet(r, f) ==
    IF ~r.lost /\ f.k = "Item"
    THEN [r EXCEPT !.items = @ \o f.items, !.wire = Tail(@)]
    ELSE [r EXCEPT !.client = "ok", !.wire = <<>>]

\* What next() on the iterator makes of the frame f at its head: an Item,
\* the end of the stream, or the error the call ended with.
StreamOutcome(r, f) ==
    IF ~r.lost /\ f.k = "Item"
    THEN [r EXCEPT !.items = @ \o f.items, !.wire = Tail(@)]
    ELSE IF ~r.lost /\ f.code = "OK"
    THEN [r EXCEPT !.client = "ok", !.wire = <<>>]
    ELSE [r EXCEPT !.client = "error", !.wire = <<>>]

\* The caller takes the next element of the iterator getStream returned.
StreamNext(c) ==
    /\ rpc[c].client = "streaming"
    /\ rpc[c].lost \/ rpc[c].wire # <<>>
    /\ rpc' = [rpc EXCEPT ![c] =
                 StreamOutcome(@, IF rpc[c].lost THEN StatusFrame("UNAVAILABLE")
                                  ELSE Head(rpc[c].wire))]
    /\ UNCHANGED <<queue, serverState, atSignal>>

\* A handle that is a list: read again, it yields its elements once more.
RereadReplay(r) == [r EXCEPT !.reread = TRUE, !.items = @ \o @]

\* What next() makes of an iterator already at its end: the end again, and
\* no element.
Reread(r) == [r EXCEPT !.reread = TRUE]

\* The caller goes on reading the iterator of a stream it has exhausted.
StreamReread(c) ==
    /\ rpc[c].op = "getStream"
    /\ rpc[c].client = "ok"
    /\ ~rpc[c].reread
    /\ rpc' = [rpc EXCEPT ![c] = Reread(@)]
    /\ UNCHANGED <<queue, serverState, atSignal>>

\* The caller drops or cancels the iterator before its end: the call is
\* cancelled on the client, and the cancellation travels to the server. What
\* the server has sent and the caller has not read stays unread.
StreamCancel(c) ==
    /\ rpc[c].client = "streaming"
    /\ rpc' = [rpc EXCEPT ![c] =
                 [@ EXCEPT !.client = "cancelled", !.closed = TRUE,
                           !.wire = IF rpc[c].server \in {"queued", "running"}
                                    THEN @ ELSE <<>>]]
    /\ UNCHANGED <<queue, serverState, atSignal>>

\* The connection of a call in flight breaks: the client's side of the call
\* ends with UNAVAILABLE, the server's side will see the call cancelled.
Disconnect(c) ==
    /\ InFlight(c)
    /\ ~rpc[c].lost
    /\ rpc' = [rpc EXCEPT ![c] = [@ EXCEPT !.closed = TRUE, !.lost = TRUE]]
    /\ UNCHANGED <<queue, serverState, atSignal>>

\* ------------------------------------------------------------- server
\* The cancellation of a call reaches the server's side of it.
RecvCancel(c) ==
    /\ rpc[c].closed
    /\ ~rpc[c].cancelSeen
    /\ rpc[c].server \in {"queued", "running"}
    /\ rpc' = [rpc EXCEPT ![c].cancelSeen = TRUE]
    /\ UNCHANGED <<queue, serverState, atSignal>>

\* A pool that starts a thread for every call submitted to it.
WorkerAlways == TRUE

\* The pool has a worker thread that holds no call.
WorkerFree == Cardinality(Busy) < MaxWorkers

\* A servicer that keeps its loop counter on itself and never resets it: a
\* call starts counting where the calls served before it stopped.
StartCarryOver(r) ==
    IF r.cancelSeen
    THEN Leave(r, "stopped")
    ELSE [r EXCEPT !.server = "running", !.held = TRUE,
                   !.i = 1 + Cardinality({d \in Ids : rpc[d].server = "done"
                                                      /\ rpc[d].op = r.op}),
                   !.pc = IF r.op = "getStream" THEN "take" ELSE "body"]

\* A worker takes call r and its servicer method starts. A call already
\* known cancelled is dropped without calling the servicer.
Start(r) ==
    IF r.cancelSeen
    THEN Leave(r, "stopped")
    ELSE [r EXCEPT !.server = "running", !.held = TRUE, !.i = 1,
                   !.pc = IF r.op = "getStream" THEN "take" ELSE "body"]

\* A worker of ThreadPoolExecutor(max_workers=10) takes the oldest queued call.
Dispatch ==
    /\ serverState = "serving"
    /\ queue # <<>>
    /\ WorkerFree
    /\ rpc' = [rpc EXCEPT ![Head(queue)] = Start(@)]
    /\ queue' = Tail(queue)
    /\ UNCHANGED <<serverState, atSignal>>

\* The single response of a unary call goes out with its status.
Respond(r, frame) ==
    IF r.cancelSeen
    THEN Leave(r, "stopped")
    ELSE Leave([r EXCEPT !.wire = <<frame, StatusFrame("OK")>>], "done")

\* ApiServer.sayHello: return Hello(message=f'Hello {request.name}!')
ApiServer_sayHello(c) ==
    /\ rpc[c].server = "running"
    /\ rpc[c].op = "sayHello"
    /\ rpc' = [rpc EXCEPT ![c] = Respond(@, HelloFrame(Hello(rpc[c].name)))]
    /\ UNCHANGED <<queue, serverState, atSignal>>

\* getAll with data kept on the servicer, one list for all calls: a turn
\* appends to the longest list a running getAll call has built.
GetAllTurnShared(r) ==
    LET others == {d \in Ids : rpc[d].op = "getAll" /\ rpc[d].server = "running"}
        shared == IF others = {} THEN r.data
                  ELSE rpc[CHOOSE d \in others :
                              \A e \in others : Len(rpc[d].data) >= Len(rpc[e].data)].data
    IN IF r.i < r.length + 1
       THEN [r EXCEPT !.data = Append(shared, Item(r.i)), !.i = @ + 1]
       ELSE Respond(r, ItemsFrame(r.data))

\* getAll looping over range(1, request.length): the last item is missing.
GetAllTurnShort(r) ==
    IF r.i < r.length
    THEN [r EXCEPT !.data = Append(@, Item(r.i)), !.i = @ + 1]
    ELSE Respond(r, ItemsFrame(r.data))

\* getAll written as a loop that tests its bound after the body: the first
\* item is built whatever the length.
GetAllTurnBodyFirst(r) ==
    IF r.i < r.length + 1 \/ r.i = 1
    THEN [r EXCEPT !.data = Append(@, Item(r.i)), !.i = @ + 1]
    ELSE Respond(r, ItemsFrame(r.data))

\* getAll with its return indented into the loop: the response leaves with
\* the first item.
GetAllTurnEarlyReturn(r) ==
    IF r.i < r.length + 1
    THEN Respond([r EXCEPT !.data = Append(@, Item(r.i))],
                 ItemsFrame(Append(r.data, Item(r.i))))
    ELSE Respond(r, ItemsFrame(r.data))

\* One turn of getAll's loop on the locals of r:
\* for i in range(1, request.length + 1): data.append(Item(...)),
\* or, the range exhausted, return Items(items=data).
GetAllTurn(r) ==
    IF r.i < r.length + 1
    THEN [r EXCEPT !.data = Append(@, Item(r.i)), !.i = @ + 1]
    ELSE Respond(r, ItemsFrame(r.data))

\* getAll run from its first line to its return, on its own.
RECURSIVE GetAllRun(_)
GetAllRun(r) == IF r.server = "running" THEN GetAllRun(GetAllTurn(r)) ELSE r

\* getAll(ApiRequest(length=length)).items
GetAllItems(length) ==
    GetAllRun(Start(NewCall("getAll", "", length, TRUE))).wire[1].items

\* ApiServer.getAll
ApiServer_getAll(c) ==
    /\ rpc[c].server = "running"
    /\ rpc[c].op = "getAll"
    /\ rpc' = [rpc EXCEPT ![c] = GetAllTurn(@)]
    /\ UNCHANGED <<queue, serverState, atSignal>>

\* getStream looping over range(1, request.length): the last item is missing.
GetStreamTurnShort(r) ==
    IF r.i < r.length
    THEN [r EXCEPT !.pending = <<Item(r.i)>>, !.i = @ + 1, !.pc = "send"]
    ELSE Leave(WithStatus(r, "OK"), IF r.cancelSeen THEN "stopped" ELSE "done")

\* getStream with its counter kept on the servicer, one for all calls: a
\* turn goes on from the furthest any running stream has counted.
GetStreamTurnShared(r) ==
    LET others == {d \in Ids : rpc[d].op = "getStream" /\ rpc[d].server = "running"}
        n == IF others = {} THEN r.i
             ELSE rpc[CHOOSE d \in others : \A e \in others : rpc[d].i >= rpc[e].i].i
    IN IF n < r.length + 1
       THEN [r EXCEPT !.pending = <<Item(n)>>, !.i = n + 1, !.pc = "send"]
       ELSE Leave(WithStatus(r, "OK"), IF r.cancelSeen THEN "stopped" ELSE "done")

\* getStream that validates its request: a negative length raises.
GetStreamTurnChecked(r) ==
    IF r.length < 0
    THEN Leave(WithStatus(r, "UNKNOWN"), "aborted")
    ELSE IF r.i < r.length + 1
    THEN [r EXCEPT !.pending = <<Item(r.i)>>, !.i = @ + 1, !.pc = "send"]
    ELSE Leave(WithStatus(r, "OK"), IF r.cancelSeen THEN "stopped" ELSE "done")

\* The generator of getStream resumed on the locals of r:
\* for i in range(1, request.length + 1): yield Item(...),
\* or, the range exhausted, the generator returns and the call ends OK.
GetStreamTurn(r) ==
    IF r.i < r.length + 1
    THEN [r EXCEPT !.pending = <<Item(r.i)>>, !.i = @ + 1, !.pc = "send"]
    ELSE Leave(WithStatus(r, "OK"), IF r.cancelSeen THEN "stopped" ELSE "done")

\* A runtime that drains the generator ahead of its sends: the next Item
\* is taken while the last one still waits for the transport.
ApiServer_getStreamEager(c) ==
    /\ rpc[c].server = "running"
    /\ rpc[c].op = "getStream"
    /\ rpc[c].pc = "take" \/ rpc[c].i < rpc[c].length + 1
    /\ rpc' = [rpc EXCEPT ![c] =
                 IF @.i < @.length + 1
                 THEN [@ EXCEPT !.pending = Append(@, Item(rpc[c].i)),
                                !.i = @ + 1, !.pc = "send"]
                 ELSE Leave(WithStatus(@, "OK"),
                            IF @.cancelSeen THEN "stopped" ELSE "done")]
    /\ UNCHANGED <<queue, serverState, atSignal>>

\* ApiServer.getStream, resumed by the runtime's next() on it.
ApiServer_getStream(c) ==
    /\ rpc[c].server = "running"
    /\ rpc[c].pc = "take"
    /\ rpc' = [rpc EXCEPT ![c] = GetStreamTurn(@)]
    /\ UNCHANGED <<queue, serverState, atSignal>>

\* A send that only the transport's room lets return: a blocked send is not
\* woken when the call is cancelled.
CanSendBlind(r) == Len(r.wire) < Window

\* The runtime's send of the Item the generator yielded returns: the
\* transport has room for the message, or the call is known cancelled.
CanSend(r) == r.cancelSeen \/ Len(r.wire) < Window

\* A send that goes on although the call is known cancelled.
SendTurnDeaf(r) ==
    [r EXCEPT !.wire = Append(@, ItemFrame(r.pending[1])),
              !.pending = <<>>, !.pc = "take"]

\* The runtime's send of the yielded Item: not at all once the call is known
\* cancelled (the loop over the generator ends there), else onto the wire.
SendTurn(r) ==
    IF r.cancelSeen
    THEN Leave(r, "stopped")
    ELSE [r EXCEPT !.wire = Append(@, ItemFrame(r.pending[1])),
                   !.pending = <<>>, !.pc = "take"]

\* The elements the generator of a running getStream call has computed so
\* far, and those of them the runtime has passed to the transport.
Computed(r) == IF r.op = "getStream" /\ r.server = "running" THEN r.i - 1 ELSE 0
Sent(r) == Computed(r) - Len(r.pending)

\* The Item that getStream yielded goes to the transport.
StreamSend(c) ==
    /\ rpc[c].server = "running"
    /\ rpc[c].pc = "send"
    /\ CanSend(rpc[c])
    /\ rpc' = [rpc EXCEPT ![c] = SendTurn(@)]
    /\ UNCHANGED <<queue, serverState, atSignal>>

\* What the runtime does with a call whose servicer method raised: that call
\* ends with status UNKNOWN and its worker returns to the pool.
Abort(r) == Leave(WithStatus(r, "UNKNOWN"), "aborted")

\* An exception in a servicer method that takes the whole process down.
FaultCrash(c) ==
    /\ rpc[c].server = "running"
    /\ rpc[c].op \in {"getAll", "getStream"}
    /\ serverState' = "exited"
    /\ rpc' = [d \in Ids |->
                 IF rpc[d].server \in {"queued", "running"}
                 THEN Leave([rpc[d] EXCEPT !.wire = Append(@, StatusFrame("UNAVAILABLE"))],
                            "killed")
                 ELSE rpc[d]]
    /\ queue' = <<>>
    /\ UNCHANGED atSignal

\* The loop body of getAll / getStream raises (an allocation fails):
\* the exception leaves the servicer method unhandled.
Fault(c) ==
    /\ rpc[c].server = "running"
    /\ rpc[c].op \in {"getAll", "getStream"}
    /\ rpc' = [rpc EXCEPT ![c] = Abort(@)]
    /\ UNCHANGED <<queue, serverState, atSignal>>

\* An exit that closes the calls it cuts short as if they had ended well.
KillQuiet(r) ==
    IF r.server \in {"queued", "running"}
    THEN Leave([r EXCEPT !.wire = Append(@, StatusFrame("OK"))], "killed")
    ELSE r

\* What the exit of the process does to call r: a call still queued or
\* running dies with the process and its caller sees the connection go.
Kill(r) ==
    IF r.server \in {"queued", "running"}
    THEN Leave([r EXCEPT !.wire = Append(@, StatusFrame("UNAVAILABLE"))], "killed")
    ELSE r

\* A termination signal reaches the process blocked in
\* server.wait_for_termination(): serve() installs no handler and never
\* calls server.stop(grace), so the process ends there and then.
Terminate ==
    /\ serverState = "serving"
    /\ serverState' = "exited"
    /\ atSignal' = {c \in Ids : InFlight(c)}
    /\ rpc' = [c \in Ids |-> Kill(rpc[c])]
    /\ queue' = <<>>

\* ------------------------------------------------------ specification
\* The steps that take no input: the client's and the server's progress on
\* call c, and what the environment may do to it.
ClientStep(c) == ClientReturn(c) \/ StreamNext(c)

ServerStep(c) ==
    \/ ApiServer_sayHello(c)
    \/ ApiServer_getAll(c)
    \/ ApiServer_getStream(c)
    \/ StreamSend(c)

Next ==
    \/ \E name \in Names : Len(rpc) < MaxCalls /\ ApiClient_sayHello(name)
    \/ \E length \in Lengths \cup {HomeAllLength} :
          Len(rpc) < MaxCalls /\ ApiClient_getAll(length)
    \/ \E length \in Lengths : Len(rpc) < MaxCalls /\ ApiClient_getStream(length)
    \/ \E c \in Ids : ClientStep(c)
    \/ \E c \in Ids : StreamCancel(c)
    \/ \E c \in Ids : Disconnect(c)
    \/ \E c \in Ids : RecvCancel(c)
    \/ Dispatch
    \/ \E c \in Ids : ServerStep(c)
    \/ \E c \in Ids : Fault(c)
    \/ Terminate

Spec == Init /\ [][Next]_vars

\* The server's side keeps running: a worker thread that can take its next
\* step takes it, a free worker takes the oldest queued call, and a
\* cancellation on its way arrives. Nothing is assumed of the callers.
ServerFair ==
    /\ WF_vars(Dispatch)
    /\ \A c \in 1 .. MaxCalls : WF_vars(c \in Ids /\ ServerStep(c))
    /\ \A c \in 1 .. MaxCalls : WF_vars(c \in Ids /\ RecvCancel(c))

\* The streaming calls alone, with what their callers and their connections
\* may do, under that fairness.
NextStream ==
    \/ \E length \in Lengths : Len(rpc) < MaxCalls /\ ApiClient_getStream(length)
    \/ \E c \in Ids : StreamNext(c)
    \/ \E c \in Ids : StreamCancel(c)
    \/ \E c \in Ids : Disconnect(c)
    \/ \E c \in Ids : RecvCancel(c)
    \/ Dispatch
    \/ \E c \in Ids : ApiServer_getStream(c)
    \/ \E c \in Ids : StreamSend(c)

FairSpec == Init /\ [][NextStream]_vars /\ ServerFair

\* More callers than the pool has workers, each making the page's greeting
\* call: the executor's queue fills once every worker is busy. Only the
\* server's side of the calls is followed.
NextPool ==
    \/ Len(rpc) < MaxPoolCalls /\ ApiClient_sayHello("Gonzalo")
    \/ Dispatch
    \/ \E c \in Ids : ApiServer_sayHello(c)

SpecPool == Init /\ [][NextPool]_vars

\* Several callers in getAll at once, each with a length of its own.
NextConc ==
    \/ \E length \in 0 .. MaxLen :
          /\ \A c \in Ids : rpc[c].length # length
          /\ ApiClient_getAll(length)
    \/ Dispatch
    \/ \E c \in Ids : ApiServer_getAll(c)
    \/ \E c \in Ids : ClientReturn(c)

SpecConc == Init /\ [][NextConc]_vars

\* A few callers at once, one call of each kind at most, where the loop
\* body of a running getAll or getStream may raise; callers and server
\* keep going (weak fairness of every step but the fault).
NextFault ==
    \/ /\ Len(rpc) < MaxPair
       /\ \A c \in Ids : rpc[c].op # "sayHello"
       /\ ApiClient_sayHello("Gonzalo")
    \/ /\ Len(rpc) < MaxPair
       /\ \A c \in Ids : rpc[c].op # "getAll"
       /\ ApiClient_getAll(MaxLen)
    \/ /\ Len(rpc) < MaxPair
       /\ \A c \in Ids : rpc[c].op # "getStream"
       /\ ApiClient_getStream(MaxLen)
    \/ \E c \in Ids : ClientStep(c)
    \/ Dispatch
    \/ \E c \in Ids : ServerStep(c)
    \/ \E c \in Ids : Fault(c)

SpecFault ==
    /\ Init /\ [][NextFault]_vars
    /\ WF_vars(Dispatch)
    /\ \A c \in 1 .. MaxPair : WF_vars(c \in Ids /\ ServerStep(c))
    /\ \A c \in 1 .. MaxPair : WF_vars(c \in Ids /\ ClientStep(c))

\* Calls that nothing disturbs: no fault in a servicer method, no broken
\* connection, no cancel, no signal; callers read what they asked for and
\* the server keeps running (weak fairness of the callers' and the server's
\* steps).
NextCalm ==
    \/ \E name \in Names : Len(rpc) < MaxCalls /\ ApiClient_sayHello(name)
    \/ \E length \in Lengths \cup {HomeAllLength, HomeStreamLength} :
          Len(rpc) < MaxCalls /\ ApiClient_getAll(length)
    \/ \E length \in Lengths \cup {HomeAllLength, HomeStreamLength} :
          Len(rpc) < MaxCalls /\ ApiClient_getStream(length)
    \/ \E c \in Ids : ClientStep(c)
    \/ Dispatch
    \/ \E c \in Ids : ServerStep(c)

SpecCalm ==
    /\ Init /\ [][NextCalm]_vars
    /\ ServerFair
    /\ \A c \in 1 .. MaxCalls : WF_vars(c \in Ids /\ ClientStep(c))

\* Every call made so far is over, for its caller and on the server.
AllOver ==
    \A c \in Ids : ~InFlight(c) /\ rpc[c].server \notin {"queued", "running"}

\* Calls one after another, the same input more than once, where a call may
\* fail in its servicer method or be cancelled by its caller.
NextRepeat ==
    \/ Len(rpc) < MaxPair /\ AllOver /\ ApiClient_sayHello("Gonzalo")
    \/ Len(rpc) < MaxPair /\ AllOver /\ ApiClient_getAll(MaxLen)
    \/ Len(rpc) < MaxPair /\ AllOver /\ ApiClient_getStream(MaxLen)
    \/ \E c \in Ids : ClientStep(c)
    \/ \E c \in Ids : StreamCancel(c)
    \/ \E c \in Ids : RecvCancel(c)
    \/ Dispatch
    \/ \E c \in Ids : ServerStep(c)
    \/ \E c \in Ids : Fault(c)

SpecRepeat == Init /\ [][NextRepeat]_vars

\* Several streams at once, each read by its caller at its own pace or
\* cancelled.
NextStreams ==
    \/ \E length \in 1 .. MaxLen : Len(rpc) < MaxPair /\ ApiClient_getStream(length)
    \/ \E c \in Ids : StreamNext(c)
    \/ \E c \in Ids : StreamCancel(c)
    \/ \E c \in Ids : RecvCancel(c)
    \/ Dispatch
    \/ \E c \in Ids : ApiServer_getStream(c)
    \/ \E c \in Ids : StreamSend(c)

SpecStreams == Init /\ [][NextStreams]_vars

\* Streams read to their end, one after another, and read on after it; the
\* server keeps running and the callers keep reading.
NextDrain ==
    \/ \E length \in 0 .. MaxLen :
          Len(rpc) < MaxPair /\ AllOver /\ ApiClient_getStream(length)
    \/ \E c \in Ids : StreamNext(c)
    \/ \E c \in Ids : StreamReread(c)
    \/ Dispatch
    \/ \E c \in Ids : ApiServer_getStream(c)
    \/ \E c \in Ids : StreamSend(c)

SpecDrain ==
    /\ Init /\ [][NextDrain]_vars
    /\ WF_vars(Dispatch)
    /\ \A c \in 1 .. MaxPair : WF_vars(c \in Ids /\ ServerStep(c))
    /\ \A c \in 1 .. MaxPair : WF_vars(c \in Ids /\ StreamNext(c))

\* More callers than the pool has workers, the first of them reading a
\* stream at its own pace, the others making the page's greeting call; the
\* server keeps running (some worker that can take a step takes one) and
\* the reader goes on reading.
NextOwn ==
    \/ Len(rpc) = 0 /\ ApiClient_getStream(MaxLen)
    \/ Len(rpc) > 0 /\ Len(rpc) < MaxPoolCalls /\ ApiClient_sayHello("Gonzalo")
    \/ \E c \in Ids : StreamNext(c)
    \/ Dispatch
    \/ \E c \in Ids : ApiServer_sayHello(c)
    \/ \E c \in Ids : ApiServer_getStream(c)
    \/ \E c \in Ids : StreamSend(c)

SpecOwn ==
    /\ Init /\ [][NextOwn]_vars
    /\ WF_vars(Dispatch)
    /\ WF_vars(\E c \in Ids : ServerStep(c))
    /\ WF_vars(\E c \in Ids : StreamNext(c))

\* ------------------------------------------------------------- claims

\* C1: for every length >= 0 a getAll(length) call that returns hands its
\* caller exactly length items, the k-th with id k and name "name k": the
\* ids are 1..length in increasing order, none missing, none twice.
C1_GetAllOneToLength ==
    \A c \in Ids :
        rpc[c].op = "getAll" /\ rpc[c].client = "ok" /\ rpc[c].length >= 0 =>
            /\ Len(rpc[c].items) = rpc[c].length
            /\ \A k \in 1 .. rpc[c].length :
                  rpc[c].items[k] = [id |-> k, name |-> "name " \o ToString(k)]

\* The page's own call, getAll(10), has returned its ten items.
C1_Witness ==
    \E c \in Ids : /\ rpc[c].op = "getAll" /\ rpc[c].client = "ok"
                   /\ rpc[c].length = HomeAllLength
                   /\ Len(rpc[c].items) = HomeAllLength

\* C2: for every length >= 0 the Items a caller has received when it has
\* consumed getStream(length) to its end are, element by element and in
\* number, getAll(length).items.
C2_StreamEqualsGetAll ==
    /\ \A c \in Ids :
        rpc[c].op = "getStream" /\ rpc[c].client = "ok" /\ rpc[c].length >= 0 =>
            rpc[c].items = GetAllItems(rpc[c].length)
    /\ \A c, d \in Ids :
        /\ rpc[c].op = "getStream" /\ rpc[c].client = "ok"
        /\ rpc[d].op = "getAll" /\ rpc[d].client = "ok"
        /\ rpc[c].length = rpc[d].length /\ rpc[c].length >= 0
        => rpc[c].items = rpc[d].items

\* A stream of MaxLen items has been consumed to its end.
C2_Witness ==
    \E c \in Ids : /\ rpc[c].op = "getStream" /\ rpc[c].client = "ok"
                   /\ rpc[c].length = MaxLen
                   /\ Len(rpc[c].items) = MaxLen

\* C3 as stated: once the caller has closed the stream handle or the
\* connection of a getStream call, the server computes and sends no further
\* element of that call.
C3_Original ==
    [][\A c \in Ids :
          rpc[c].closed =>
              /\ Computed(rpc'[c]) <= Computed(rpc[c])
              /\ Sent(rpc'[c]) <= Sent(rpc[c])]_vars

\* C3, amended: once the cancellation has reached the server's side of the
\* call, no further element is sent, and at most one further element is
\* computed: the one the runtime takes from the generator before its send
\* finds the call cancelled and ends the loop.
C3_StopsOnceCancelSeen ==
    [][\A c \in Ids :
          rpc[c].cancelSeen =>
              /\ Sent(rpc'[c]) <= Sent(rpc[c])
              /\ rpc[c].pc = "send" => Computed(rpc'[c]) <= Computed(rpc[c])
              /\ Computed(rpc'[c]) > Computed(rpc[c]) => rpc'[c].pc = "send"]_vars

\* A caller cancelled a stream after one element of several, and the
\* server's loop over the generator has ended on that cancellation.
C3_Witness ==
    \E c \in Ids : /\ rpc[c].op = "getStream" /\ rpc[c].client = "cancelled"
                   /\ Len(rpc[c].items) >= 1 /\ Len(rpc[c].items) < rpc[c].length
                   /\ rpc[c].cancelSeen /\ rpc[c].server = "stopped"

\* C4: when the consumer of a getStream call is gone (it cancelled the
\* stream, or its connection broke) while a worker holds the call, that
\* worker is eventually released; it does not wait forever for the consumer.
C4_WorkerReleased ==
    \A c \in 1 .. MaxCalls :
        (c \in Ids /\ rpc[c].op = "getStream" /\ rpc[c].closed /\ rpc[c].held)
            ~> (c \in Ids /\ ~rpc[c].held)

\* A consumer left after fewer elements than the stream has while the
\* worker was blocked in a send the transport had no room for.
C4_Witness ==
    \E c \in Ids : /\ rpc[c].op = "getStream" /\ rpc[c].client = "cancelled"
                   /\ Len(rpc[c].items) < rpc[c].length
                   /\ rpc[c].held /\ rpc[c].pc = "send"
                   /\ Len(rpc[c].wire) = Window

\* C5: at most 10 calls execute at once, each of them on a worker of its
\* own; a call that arrives while the 10 workers are busy waits in the
\* queue, in arrival order, neither rejected nor dropped, and starts only
\* when a worker is free.
C5_PoolBound ==
    /\ Cardinality(Running) <= 10
    /\ Cardinality(Busy) <= 10
    /\ \A c \in Ids : rpc[c].held <=> rpc[c].server = "running"
    /\ \A c \in Ids : rpc[c].server \in {"queued", "running", "done"}
    /\ \A c \in Ids : rpc[c].server = "queued" <=> \E k \in DOMAIN queue : queue[k] = c
    /\ \A j, k \in DOMAIN queue : j < k => queue[j] < queue[k]
    /\ queue # <<>> /\ Cardinality(Busy) < 10 => ENABLED Dispatch

\* The 10 workers are busy and an eleventh call waits in the queue.
C5_Witness ==
    /\ Cardinality(Running) = 10
    /\ queue # <<>>
    /\ rpc[Head(queue)].server = "queued"

\* C6: when getAll calls with pairwise distinct lengths run at once, in any
\* interleaving of their loops, each caller receives exactly the items
\* 1..length of its own request, and the list a call is building holds only
\* the items of that call.
C6_OwnItemsOnly ==
    /\ \A c \in Ids :
          rpc[c].client = "ok" =>
              /\ Len(rpc[c].items) = rpc[c].length
              /\ \A k \in 1 .. rpc[c].length :
                    rpc[c].items[k] = [id |-> k, name |-> "name " \o ToString(k)]
    /\ \A c \in Running :
          /\ Len(rpc[c].data) = rpc[c].i - 1
          /\ \A k \in 1 .. Len(rpc[c].data) : rpc[c].data[k].id = k
    /\ \A c \in Ids : rpc[c].client # "error"

\* One caller has its items back while another call, started before the
\* first returned, is in the middle of its loop.
C6_Witness ==
    \E c, d \in Ids :
        /\ c # d
        /\ rpc[c].client = "ok" /\ rpc[c].length >= 1
        /\ rpc[d].server = "running" /\ Len(rpc[d].data) >= 1
        /\ rpc[d].length > Len(rpc[d].data)

\* C7: a call that met a transport fault (the connection was refused, it
\* broke in mid-call, or it went with the server process) never ends for its
\* caller as a success: neither sayHello nor getAll returns data for it, and
\* the stream of getStream does not end as if complete. The error is there
\* for the caller to meet at its next step.
C7_FaultIsError ==
    \A c \in Ids :
        rpc[c].lost \/ rpc[c].server = "killed" =>
            /\ rpc[c].client # "ok"
            /\ InFlight(c) => rpc[c].lost \/ Ended(c)
            /\ InFlight(c) /\ rpc[c].lost => ENABLED ClientStep(c)

\* The connection of a stream broke after the caller had read some of its
\* elements, not all, and the caller's next read raised.
C7_Witness ==
    \E c \in Ids : /\ rpc[c].op = "getStream" /\ rpc[c].lost
                   /\ rpc[c].client = "error"
                   /\ Len(rpc[c].items) >= 1 /\ Len(rpc[c].items) < rpc[c].length

\* C8, the state part: a call whose servicer method raised ends for its
\* caller with an error, no other caller sees an error, a call that
\* returns returns its own correct result, and the server keeps serving.
C8_Isolated ==
    /\ serverState = "serving"
    /\ \A c \in Ids :
          /\ rpc[c].server = "aborted" => rpc[c].client \in {"waiting", "streaming", "error"}
          /\ rpc[c].client = "error" => rpc[c].server = "aborted"
          /\ rpc[c].client = "ok" /\ rpc[c].op = "sayHello" =>
                rpc[c].message = "Hello " \o rpc[c].name \o "!"
          /\ rpc[c].client = "ok" /\ rpc[c].op # "sayHello" =>
                /\ Len(rpc[c].items) = rpc[c].length
                /\ \A k \in 1 .. rpc[c].length : rpc[c].items[k].id = k

\* C8, the step part: the step in which a call is aborted for a fault leaves
\* the queue, the server and every other call as they were.
C8_FaultStep ==
    \A c \in Ids :
        rpc[c].server = "running" /\ rpc'[c].server = "aborted" =>
            /\ queue' = queue
            /\ serverState' = serverState
            /\ \A d \in Ids \ {c} : rpc'[d] = rpc[d]

\* C8: an unhandled fault in one call is reported to that call's caller
\* only; the server keeps running and accepting calls, and every call in
\* flight, the others included, comes to its end: the faulted one with an
\* error, the others with their own correct results.
C8_FaultIsolation ==
    /\ []C8_Isolated
    /\ [][C8_FaultStep]_vars
    /\ \A c \in 1 .. MaxPair : (c \in Ids) ~> (c \in Ids /\ ~InFlight(c))

\* One call was aborted for a fault and its caller got the error, while
\* another call, in flight at that moment, has returned its result.
C8_Witness ==
    \E c, d \in Ids :
        /\ rpc[c].server = "aborted" /\ rpc[c].client = "error"
        /\ d > c /\ rpc[d].client = "ok"

\* C9 as stated: when the termination signal has arrived, every call that
\* was in flight at that moment has run or runs to completion; none dies
\* with the process.
C9_Original ==
    serverState = "exited" => \A c \in atSignal : rpc[c].server # "killed"

\* C9, amended: the server accepts and dispatches calls until the
\* termination signal arrives; the signal ends the process without waiting
\* for the calls in flight: a call still queued or running at that moment is
\* cut short and its caller gets an error, and only a call whose response
\* was already complete still returns it, in full.
C9_ExitCutsCallsShort ==
    /\ serverState = "serving" =>
          /\ atSignal = {}
          /\ \A c \in Ids : rpc[c].server \notin {"refused", "killed"}
          /\ queue # <<>> /\ WorkerFree => ENABLED Dispatch
    /\ serverState = "exited" =>
          /\ queue = <<>>
          /\ \A c \in Ids : rpc[c].server \notin {"queued", "running"}
          /\ \A c \in atSignal :
                /\ rpc[c].server = "killed" => rpc[c].client # "ok"
                /\ rpc[c].client = "ok" /\ rpc[c].op = "sayHello" =>
                      rpc[c].message = "Hello " \o rpc[c].name \o "!"
                /\ rpc[c].client = "ok" /\ rpc[c].op # "sayHello" =>
                      Len(rpc[c].items) = IF rpc[c].length < 0 THEN 0 ELSE rpc[c].length

\* The signal came while a stream was half delivered: the call died with
\* the process and its caller, after the elements already sent, got an error.
C9_Witness ==
    /\ serverState = "exited"
    /\ \E c \in atSignal : /\ rpc[c].server = "killed" /\ rpc[c].client = "error"
                           /\ rpc[c].op = "getStream" /\ Len(rpc[c].items) >= 1

\* C10, the state part: a sayHello call that returns returns "Hello ", the
\* name and "!"; its servicer method never fails, so the call ends in an
\* error only when its connection or the server process went.
C10_Greeting ==
    \A c \in Ids :
        rpc[c].op = "sayHello" =>
            /\ rpc[c].client = "ok" => rpc[c].message = "Hello " \o rpc[c].name \o "!"
            /\ rpc[c].server # "aborted"
            /\ rpc[c].client = "error" => rpc[c].lost \/ rpc[c].server = "killed"

\* C10, the step part: the step of the servicer's sayHello changes the call
\* it serves and nothing else of the server.
C10_HelloStep ==
    \A c \in Ids :
        /\ rpc[c].op = "sayHello" /\ rpc[c].server = "running"
        /\ rpc'[c].server \in {"done", "stopped"}
        => /\ queue' = queue
           /\ serverState' = serverState
           /\ atSignal' = atSignal
           /\ \A d \in Ids \ {c} : rpc'[d] = rpc[d]

\* C10: for every name, the empty one included, sayHello(name) returns
\* exactly "Hello " + name + "!"; the operation has no failure outcome of
\* its own and changes no server state.
C10_SayHello == []C10_Greeting /\ [][C10_HelloStep]_vars

\* sayHello("") has returned "Hello !".
C10_Witness ==
    \E c \in Ids : /\ rpc[c].op = "sayHello" /\ rpc[c].name = ""
                   /\ rpc[c].client = "ok" /\ rpc[c].message = "Hello !"

\* C11: getAll(0) ends for its caller with an empty items sequence and
\* getStream(0) with the end of the stream before any element: such a call,
\* left undisturbed, never ends in an error, never hands over an item, and
\* does come to its successful end.
C11_ZeroIsEmpty ==
    /\ [](\A c \in Ids :
            rpc[c].op \in {"getAll", "getStream"} /\ rpc[c].length = 0 =>
                /\ rpc[c].client # "error"
                /\ rpc[c].items = <<>>
                /\ rpc[c].server # "aborted")
    /\ \A c \in 1 .. MaxCalls :
          (c \in Ids /\ rpc[c].op \in {"getAll", "getStream"} /\ rpc[c].length = 0)
              ~> (c \in Ids /\ rpc[c].client = "ok" /\ rpc[c].items = <<>>)

\* getStream(0) has reached the end of its stream with nothing delivered.
C11_Witness ==
    \E c \in Ids : /\ rpc[c].op = "getStream" /\ rpc[c].length = 0
                   /\ rpc[c].client = "ok" /\ rpc[c].items = <<>>
                   /\ rpc[c].server = "done"

\* C12: whatever calls came before it (completed, failed or cancelled, of
\* any operation), a call that returns returns what its input alone
\* determines: two calls with the same operation and input that both return
\* return the same message and the same items, and a stream delivers to any
\* caller a prefix of the same sequence.
C12_Stateless ==
    /\ \A c, d \in Ids :
          /\ rpc[c].op = rpc[d].op /\ rpc[c].name = rpc[d].name
          /\ rpc[c].length = rpc[d].length
          /\ rpc[c].client = "ok" /\ rpc[d].client = "ok"
          => rpc[c].message = rpc[d].message /\ rpc[c].items = rpc[d].items
    /\ \A c \in Ids :
          /\ rpc[c].op = "sayHello" /\ rpc[c].client = "ok" =>
                rpc[c].message = "Hello " \o rpc[c].name \o "!"
          /\ rpc[c].op = "getAll" /\ rpc[c].client = "ok" =>
                Len(rpc[c].items) = rpc[c].length
          /\ \A k \in 1 .. Len(rpc[c].items) :
                rpc[c].items[k] = [id |-> k, name |-> "name " \o ToString(k)]

\* A call failed in its servicer method after part of its work, and a later
\* call with the same input has returned the full result.
C12_Witness ==
    \E c, d \in Ids :
        /\ c < d /\ rpc[c].op = "getStream" /\ rpc[d].op = "getStream"
        /\ rpc[c].length = rpc[d].length
        /\ rpc[c].client = "error" /\ Len(rpc[c].items) >= 1
        /\ rpc[d].client = "ok" /\ Len(rpc[d].items) = rpc[d].length

\* C13, the state part: at every point of a getStream call the elements its
\* caller has received are those with the ids 1..k, in that order, for some
\* k <= length, and what is on its way to the caller continues that
\* sequence.
C13_Prefix ==
    \A c \in Ids :
        rpc[c].op = "getStream" =>
            /\ Len(rpc[c].items) <= rpc[c].length
            /\ \A k \in 1 .. Len(rpc[c].items) : rpc[c].items[k].id = k
            /\ \A k \in 1 .. Len(rpc[c].wire) :
                  rpc[c].wire[k].k = "Item" =>
                      rpc[c].wire[k].items[1].id = Len(rpc[c].items) + k

\* C13, the step part: a step gives a caller at most one more element, the
\* one after those it has, and takes none back.
C13_Grows ==
    \A c \in Ids :
        \/ rpc'[c].items = rpc[c].items
        \/ /\ Len(rpc'[c].items) = Len(rpc[c].items) + 1
           /\ SubSeq(rpc'[c].items, 1, Len(rpc[c].items)) = rpc[c].items
           /\ rpc'[c].items[Len(rpc'[c].items)].id = Len(rpc[c].items) + 1

C14_EndAfterLength ==
    \A c \in Ids :
        rpc[c].op = "getStream" /\ rpc[c].client = "ok" =>
            Len(rpc[c].items) = rpc[c].length

\* C14, the step part: reading an exhausted handle gives its caller no
\* element.
C14_NoRestart ==
    \A c \in Ids : rpc[c].client = "ok" => rpc'[c].items = rpc[c].items

\* C14: a getStream(length) call whose caller keeps reading reaches the end
\* of the stream after exactly length elements; the handle, once exhausted,
\* yields no element when read again, and a fresh getStream call yields the
\* sequence again.
C14_FiniteNotRestartable ==
    /\ []C14_EndAfterLength
    /\ [][C14_NoRestart]_vars
    /\ \A c \in 1 .. MaxPair :
          (c \in Ids) ~> (c \in Ids /\ rpc[c].client = "ok"
                                     /\ Len(rpc[c].items) = rpc[c].length)

\* An exhausted handle was read again and gave nothing more, and a fresh
\* call with the same length has delivered the sequence again.
C14_Witness ==
    \E c, d \in Ids :
        /\ c < d /\ rpc[c].length = rpc[d].length /\ rpc[c].length >= 1
        /\ rpc[c].client = "ok" /\ rpc[c].reread
        /\ Len(rpc[c].items) = rpc[c].length
        /\ rpc[d].client = "ok" /\ rpc[d].items = rpc[c].items

\* C15, the state part: of the elements the generator of a running
\* getStream call has produced, at most one has not been accepted by the
\* transport (accepted: read by the caller or on the wire to it).
C15_OneAhead ==
    \A c \in Ids :
        rpc[c].op = "getStream" /\ rpc[c].server = "running" =>
            LET produced == rpc[c].i - 1
                accepted == Len(rpc[c].items)
                            + Cardinality({k \in 1 .. Len(rpc[c].wire) :
                                              rpc[c].wire[k].k = "Item"})
            IN /\ produced - accepted \in {0, 1}
               /\ Len(rpc[c].pending) = produced - accepted

\* C15, the step part: the generator is resumed for one element at a time,
\* and only when the transport has accepted the element before.
C15_TakeAfterAccept ==
    \A c \in Ids :
        rpc[c].server = "running" /\ rpc'[c].server = "running"
        /\ rpc'[c].i > rpc[c].i
        => /\ rpc'[c].i = rpc[c].i + 1
           /\ rpc[c].pending = <<>>

\* C15: in a getStream call element i+1 is not produced until the transport
\* has accepted element i: at any moment at most one produced element of
\* the call is not yet accepted.
C15_PipelineDepthOne == []C15_OneAhead /\ [][C15_TakeAfterAccept]_vars

\* A stream with elements still to produce stands still: its last element
\* waits for room in the transport, which the caller has not made yet.
C15_Witness ==
    \E c \in Ids :
        /\ rpc[c].op = "getStream" /\ rpc[c].server = "running"
        /\ rpc[c].client = "streaming"
        /\ rpc[c].pc = "send" /\ Len(rpc[c].pending) = 1
        /\ Len(rpc[c].wire) = Window
        /\ ~ENABLED ServerStep(c)

\* C16: a getAll call is answered with one response message: nothing is on
\* its way to the caller while the servicer method runs, the message that
\* leaves carries all length items, and the caller holds no item until its
\* getAll has returned, and then all of them; a call that fails midway
\* leaves its caller with none. (That a getStream caller can hold element 1
\* before element length is produced is the case C16_Witness reaches.)
C16_SingleResponse ==
    \A c \in Ids :
        rpc[c].op = "getAll" =>
            /\ rpc[c].server \in {"queued", "running"} => rpc[c].wire = <<>>
            /\ \A k \in 1 .. Len(rpc[c].wire) :
                  /\ rpc[c].wire[k].k # "Item"
                  /\ rpc[c].wire[k].k = "Items" =>
                        /\ k = 1
                        /\ Len(rpc[c].wire[k].items)
                              = IF rpc[c].length < 0 THEN 0 ELSE rpc[c].length
            /\ rpc[c].client # "ok" => rpc[c].items = <<>>
            /\ rpc[c].client = "ok" =>
                  Len(rpc[c].items) = IF rpc[c].length < 0 THEN 0 ELSE rpc[c].length

\* A getAll call has built part of its list and its caller, still waiting,
\* has been sent nothing, while a getStream caller holds the first element
\* of a stream whose last element is not produced yet.
C16_Witness ==
    \E c, d \in Ids :
        /\ rpc[c].op = "getAll" /\ rpc[c].server = "running"
        /\ Len(rpc[c].data) >= 1 /\ Len(rpc[c].data) < rpc[c].length
        /\ rpc[c].client = "waiting" /\ rpc[c].wire = <<>> /\ rpc[c].items = <<>>
        /\ rpc[d].op = "getStream" /\ rpc[d].server = "running"
        /\ Len(rpc[d].items) >= 1 /\ rpc[d].i - 1 < rpc[d].length

\* C17: for a negative length, getAll returns an empty items sequence and
\* getStream ends without an element: such a call, left undisturbed, never
\* ends in an error, is never aborted by the servicer, never delivers an
\* item, and does come to its successful end.
C17_NegativeIsEmpty ==
    /\ [](\A c \in Ids :
            rpc[c].op \in {"getAll", "getStream"} /\ rpc[c].length < 0 =>
                /\ rpc[c].client # "error"
                /\ rpc[c].server # "aborted"
                /\ rpc[c].items = <<>> /\ rpc[c].data = <<>> /\ rpc[c].pending = <<>>
                /\ \A k \in 1 .. Len(rpc[c].wire) : rpc[c].wire[k].items = <<>>)
    /\ \A c \in 1 .. MaxCalls :
          (c \in Ids /\ rpc[c].op \in {"getAll", "getStream"} /\ rpc[c].length < 0)
              ~> (c \in Ids /\ rpc[c].client = "ok" /\ rpc[c].items = <<>>)

\* getAll with a negative length has returned an empty list.
C17_Witness ==
    \E c \in Ids : /\ rpc[c].op = "getAll" /\ rpc[c].length < 0
                   /\ rpc[c].client = "ok" /\ rpc[c].items = <<>>
                   /\ rpc[c].server = "done"

\* C18, the state part: a call is in the server's queue at most once, and
\* only while the server has not taken it up.
C18_OneRequest ==
    /\ \A j, k \in 1 .. Len(queue) : queue[j] = queue[k] => j = k
    /\ \A k \in 1 .. Len(queue) :
          queue[k] \in Ids /\ rpc[queue[k]].server = "queued"

\* C18, the step part: a request reaches the server only in the step in
\* which a caller invokes a client method, one request for the invocation;
\* a call the server has taken up is never submitted again, and a call that
\* has ended for its caller, in a result or an error, stays ended.
C18_NoResend ==
    /\ Len(queue') > Len(queue) =>
          /\ Len(rpc') = Len(rpc) + 1
          /\ queue' = Append(queue, Len(rpc'))
    /\ Len(rpc') \in {Len(rpc), Len(rpc) + 1}
    /\ \A c \in Ids :
          /\ rpc[c].server # "queued" => rpc'[c].server # "queued"
          /\ rpc[c].client \in {"ok", "error", "cancelled"} =>
                rpc'[c].client = rpc[c].client

\* C18: the client never retries: one invocation of sayHello, getAll or
\* getStream sends at most one request, and after a failed call no request
\* is sent until the caller invokes a method again.
C18_NeverRetries == []C18_OneRequest /\ [][C18_NoResend]_vars

\* A getAll call failed and its caller got the error; the one request sent
\* since is that of the caller's next invocation.
C18_Witness ==
    \E c, d \in Ids :
        /\ d = c + 1 /\ d = Len(rpc)
        /\ rpc[c].op = "getAll" /\ rpc[c].server = "aborted"
        /\ rpc[c].client = "error"
        /\ rpc[d].server = "queued" /\ queue = <<d>>

\* C19, the state part: every call the client has made went out on the
\* channel created at the client's construction; no other channel exists.
C19_OneChannel == \A c \in Ids : rpc[c].channel = 1

\* C19, the step part: a call stays on the channel it was made on, whatever
\* happens to it.
C19_SameChannel == \A c \in Ids : rpc'[c].channel = rpc[c].channel

C20_Holds ==
    \A c \in Ids :
        /\ rpc[c].held <=> rpc[c].server = "running"
        /\ rpc[c].op = "getStream" /\ rpc[c].pc = "send" /\ Len(rpc[c].wire) >= Window
           /\ ~rpc[c].cancelSeen => rpc[c].held

\* C20, the step part: a call gets its worker when it is dispatched, which
\* happens only with fewer than 10 calls running; it keeps the worker as
\* long as it runs and gives it back only by completing or on its
\* cancellation.
C20_Owns ==
    \A c \in Ids :
        /\ rpc[c].server = "queued" /\ rpc'[c].server = "running" =>
              /\ Cardinality({d \in Ids : rpc[d].server = "running"}) < 10
              /\ rpc'[c].held
        /\ rpc[c].held /\ rpc'[c].server = "running" => rpc'[c].held
        /\ rpc[c].held /\ ~rpc'[c].held =>
              \/ rpc'[c].server = "done"
              \/ rpc'[c].server = "stopped" /\ rpc[c].cancelSeen

\* C20: a call owns its worker from dispatch until it completes or is
\* cancelled, a getStream call with a slow consumer for all that time; a
\* call queued behind 10 busy workers is never dispatched while the 10 are
\* still running and, the calls in flight coming to their end, is
\* eventually dispatched: whenever calls wait in the queue, a moment comes
\* when none waits (a call leaves the queue only by being dispatched).
C20_WorkerOwnership ==
    /\ []C20_Holds
    /\ [][C20_Owns]_vars
    /\ (queue # <<>>) ~> (queue = <<>>)

\* The 10 workers are busy, one of them held by a stream that waits for its
\* consumer, and an eleventh call waits in the queue.
C20_Witness ==
    /\ Cardinality({c \in Ids : rpc[c].held}) = 10
    /\ \E c \in Ids : /\ rpc[c].op = "getStream" /\ rpc[c].held
                      /\ rpc[c].pc = "send" /\ Len(rpc[c].wire) = Window
                      /\ rpc[c].client = "streaming"
    /\ queue # <<>>
    /\ ~ENABLED Dispatch

====
